---- MODULE Spec2Model ----
(***************************************************************************)
(* The rule no-base-to-string of typescript-eslint                         *)
(* (packages/eslint-plugin/src/rules/no-base-to-string.ts).                *)
(*                                                                         *)
(* checkExpression asks collectToStringCertainty for the Usefulness of a   *)
(* type and reports every verdict other than Always.                       *)
(* collectToStringCertainty is a recursive function over the constituents  *)
(* of union and intersection types.  The model runs it as a machine with   *)
(* an explicit call stack: one frame per activation that has reached one   *)
(* of the two loops over type.types.  The TypeScript type checker is the   *)
(* environment: the type handed to checkExpression and the constituents a  *)
(* loop meets are drawn from Types, the records of the answers the checker *)
(* gives to the queries the function makes.                                *)
(***************************************************************************)
EXTENDS Naturals, Sequences, FiniteSets

\* ---- bounds of the model ----
MaxDecls == 2        \* declarations of the toString symbol
MaxSignatures == 1   \* call signatures of a type
MaxArity == 2        \* constituents of a union or an intersection
MaxDepth == 2        \* composite types nested inside one another

\* The engine's call stack holds finitely many activations; deeper calls
\* raise RangeError.  It is deeper than any nesting the model enumerates.
StackLimit == MaxDepth + 1

\* ---- enum Usefulness ----
Always == "always"
Never == "will"
Sometimes == "may"
Function == "function"
Usefulness == {Always, Never, Sometimes, Function}

\* ---- what the type checker answers about a type ----
\* The parent node of a declaration of toString: its syntax kind and name.
Parents == [isInterfaceDeclaration : BOOLEAN, name : {"Object", "Foo"}]

SeqsUpTo(S, n) == UNION {[1..k -> S] : k \in 0..n}

\* toString?.getDeclarations(): undefined, or a list of declarations.
Declarations ==
    {[defined |-> FALSE, parents |-> <<>>]}
    \cup {[defined |-> TRUE, parents |-> ps] : ps \in SeqsUpTo(Parents, MaxDecls)}

TypeNames == {"Error", "Foo"}
TypeFlags == {"Boolean", "BooleanLiteral", "Object"}

\* type.isUnion() / type.isIntersection() and the length of type.types.
Shapes ==
    {[kind |-> "none", n |-> 0]}
    \cup [kind : {"union", "intersection"}, n : 2..MaxArity]

\* A type: toString is whether getPropertyOfType found the symbol (without
\* it there are no declarations either).
Types ==
    {t \in [toString : BOOLEAN,
            declarations : Declarations,
            callSignatures : 0..MaxSignatures,
            flags : TypeFlags,
            name : TypeNames,
            shape : Shapes] :
        ~t.toString => ~t.declarations.defined}

NoType == [absent |-> TRUE]
NoShape == [shape |-> [kind |-> "none", n |-> 0]]

\* The rule's options after defaults are applied.
Options == [ignoredTypeNames : SUBSET TypeNames, rejectFunctions : BOOLEAN]

VARIABLES
    option,     \* the options the rule was created with
    status,     \* "idle", "skipped", "classifying", "reported", "error"
    type,       \* the type the last checkExpression call passed down
    stack,      \* activations of collectToStringCertainty inside a loop
    period,     \* > 0: the constituent met is `period` activations up the stack
    certainty,  \* what collectToStringCertainty returned to checkExpression
    report      \* the messageId checkExpression reported, or "none"

vars == <<option, status, type, stack, period, certainty, report>>

\* ---- collectToStringCertainty, lines 99-145: the checks before the loops ----
\* Variant: the option is not consulted.
RejectsFunction_Unconditional(opt, t) == t.callSignatures > 0

RejectsFunction(opt, t) == opt.rejectFunctions /\ t.callSignatures > 0

NoDeclarations(t) ==
    ~t.toString \/ ~t.declarations.defined \/ Len(t.declarations.parents) = 0

\* Variant: the BooleanLiteral flag is not tested.
IsBooleanType_NoLiteral(t) == t.flags = "Boolean"

IsBooleanType(t) == t.flags = "Boolean" \/ t.flags = "BooleanLiteral"

IsIgnored(opt, t) == t.name \in opt.ignoredTypeNames

\* Variant: some declaration, instead of every one, is outside Object.
DeclaredOutsideObject_Some(t) ==
    \E k \in 1..Len(t.declarations.parents) :
        LET parent == t.declarations.parents[k]
        IN  ~parent.isInterfaceDeclaration \/ parent.name # "Object"

DeclaredOutsideObject(t) ==
    \A k \in 1..Len(t.declarations.parents) :
        LET parent == t.declarations.parents[k]
        IN  ~parent.isInterfaceDeclaration \/ parent.name # "Object"

Decompose == "decompose"

\* Variant: ignoredTypeNames is consulted before the call signatures.
BeforeLoops_IgnoredFirst(opt, t) ==
    IF NoDeclarations(t) THEN Always
    ELSE IF IsBooleanType(t) THEN Always
    ELSE IF IsIgnored(opt, t) THEN Always
    ELSE IF RejectsFunction(opt, t) THEN Function
    ELSE IF DeclaredOutsideObject(t) THEN Always
    ELSE IF t.shape.kind = "intersection" THEN Decompose
    ELSE IF t.shape.kind # "union" THEN Never
    ELSE Decompose

\* Variant: ignoredTypeNames is consulted after the declarations.
BeforeLoops_IgnoredLast(opt, t) ==
    IF RejectsFunction(opt, t) THEN Function
    ELSE IF NoDeclarations(t) THEN Always
    ELSE IF IsBooleanType(t) THEN Always
    ELSE IF DeclaredOutsideObject(t) THEN Always
    ELSE IF t.shape.kind = "intersection" THEN Decompose
    ELSE IF t.shape.kind = "union" THEN Decompose
    ELSE IF IsIgnored(opt, t) THEN Always
    ELSE Never

\* Variant: a toString without declarations counts as the base toString.
BeforeLoops_NoDeclarationsNever(opt, t) ==
    IF RejectsFunction(opt, t) THEN Function
    ELSE IF NoDeclarations(t) THEN Never
    ELSE IF IsBooleanType(t) THEN Always
    ELSE IF IsIgnored(opt, t) THEN Always
    ELSE IF DeclaredOutsideObject(t) THEN Always
    ELSE IF t.shape.kind = "intersection" THEN Decompose
    ELSE IF t.shape.kind # "union" THEN Never
    ELSE Decompose

\* The value returned before any loop, or Decompose when a loop is entered.
BeforeLoops(opt, t) ==
    IF RejectsFunction(opt, t) THEN Function
    ELSE IF NoDeclarations(t) THEN Always
    ELSE IF IsBooleanType(t) THEN Always
    ELSE IF IsIgnored(opt, t) THEN Always
    ELSE IF DeclaredOutsideObject(t) THEN Always
    ELSE IF t.shape.kind = "intersection" THEN Decompose
    ELSE IF t.shape.kind # "union" THEN Never
    ELSE Decompose

\* ---- the loops, lines 131-171 ----
NewFrame(t) ==
    [kind |-> t.shape.kind, n |-> t.shape.n, i |-> 0,
     allSubtypesUseful |-> TRUE, someSubtypeUseful |-> FALSE,
     seen |-> {}, pc |-> "loop", value |-> "none"]

\* Variant: the intersection loop returns at the first constituent that is
\* not Always.
IntersectionStep_Every(f, subtypeUsefulness) ==
    IF subtypeUsefulness # Always
    THEN [f EXCEPT !.seen = @ \cup {subtypeUsefulness},
                   !.pc = "return", !.value = Never]
    ELSE [f EXCEPT !.seen = @ \cup {subtypeUsefulness}, !.i = @ + 1]

\* One pass of the intersection loop with the constituent's verdict.
IntersectionStep(f, subtypeUsefulness) ==
    IF subtypeUsefulness = Always
    THEN [f EXCEPT !.seen = @ \cup {subtypeUsefulness},
                   !.pc = "return", !.value = Always]
    ELSE [f EXCEPT !.seen = @ \cup {subtypeUsefulness}, !.i = @ + 1]

\* Variant: only Always sets someSubtypeUseful.
UnionStep_OnlyAlways(f, subtypeUsefulness) ==
    [f EXCEPT !.seen = @ \cup {subtypeUsefulness},
              !.i = @ + 1,
              !.allSubtypesUseful =
                  IF subtypeUsefulness # Always /\ @ THEN FALSE ELSE @,
              !.someSubtypeUseful =
                  IF subtypeUsefulness = Always /\ ~@ THEN TRUE ELSE @]

\* Variant: the loop does not move on to the next constituent.
UnionStep_NoAdvance(f, subtypeUsefulness) ==
    [f EXCEPT !.seen = @ \cup {subtypeUsefulness},
              !.allSubtypesUseful =
                  IF subtypeUsefulness # Always /\ @ THEN FALSE ELSE @,
              !.someSubtypeUseful =
                  IF subtypeUsefulness # Never /\ ~@ THEN TRUE ELSE @]

\* One pass of the union loop with the constituent's verdict.
UnionStep(f, subtypeUsefulness) ==
    [f EXCEPT !.seen = @ \cup {subtypeUsefulness},
              !.i = @ + 1,
              !.allSubtypesUseful =
                  IF subtypeUsefulness # Always /\ @ THEN FALSE ELSE @,
              !.someSubtypeUseful =
                  IF subtypeUsefulness # Never /\ ~@ THEN TRUE ELSE @]

LoopStep(f, subtypeUsefulness) ==
    IF f.kind = "intersection"
    THEN IntersectionStep(f, subtypeUsefulness)
    ELSE UnionStep(f, subtypeUsefulness)

\* Variant: one useful constituent is enough for Always.
AfterLoop_SomeIsEnough(f) ==
    IF f.kind = "intersection" THEN Never
    ELSE IF f.allSubtypesUseful \/ f.someSubtypeUseful THEN Always
    ELSE IF f.someSubtypeUseful THEN Sometimes
    ELSE Never

\* The value returned once the loop has run out of constituents.
AfterLoop(f) ==
    IF f.kind = "intersection" THEN Never
    ELSE IF f.allSubtypesUseful /\ f.someSubtypeUseful THEN Always
    ELSE IF f.someSubtypeUseful THEN Sometimes
    ELSE Never

\* ---- checkExpression, lines 66-97 ----
MessageId(c) ==
    IF c = Always THEN "none"
    ELSE IF c = Function THEN "fnToString"
    ELSE "baseToString"

Top == stack[Len(stack)]
Below == SubSeq(stack, 1, Len(stack) - 1)

Init ==
    /\ option \in Options
    /\ status = "idle"
    /\ type = NoType
    /\ stack = <<>>
    /\ period = 0
    /\ certainty = "none"
    /\ report = "none"

\* checkExpression on a literal node: nothing is classified.
CheckLiteral ==
    /\ status = "idle"
    /\ status' = "skipped"
    /\ UNCHANGED <<option, type, stack, period, certainty, report>>

\* checkExpression on any other node: the top-level call of
\* collectToStringCertainty, up to its return or its entry into a loop.
CheckExpression(t) ==
    /\ status = "idle"
    /\ type' = t
    /\ LET r == BeforeLoops(option, t)
       IN  IF r = Decompose
           THEN /\ status' = "classifying"
                /\ stack' = <<NewFrame(t)>>
                /\ UNCHANGED <<certainty, report>>
           ELSE /\ status' = "reported"
                /\ stack' = <<>>
                /\ certainty' = r
                /\ report' = MessageId(r)
    /\ UNCHANGED <<option, period>>

Running == status = "classifying" /\ stack # <<>> /\ period = 0

\* What the loop of an activation can get from the recursive call on its
\* next constituent under each option: the value the call returns before any
\* loop, or the frame of a constituent that enters a loop itself.
SubtypeOutcomes ==
    {[option |-> opt,
      value |-> BeforeLoops(opt, t),
      frame |-> IF BeforeLoops(opt, t) = Decompose
                THEN NewFrame(t) ELSE NewFrame(NoShape)] :
        opt \in Options, t \in Types}

\* The loop calls collectToStringCertainty on its next constituent, a type
\* that is not being classified already.
Descend(out) ==
    /\ Running
    /\ out.option = option
    /\ Top.pc = "loop"
    /\ Top.i < Top.n
    /\ IF out.value = Decompose
       THEN /\ Len(stack) < MaxDepth
            /\ stack' = Append(stack, out.frame)
       ELSE stack' = Append(Below, LoopStep(Top, out.value))
    /\ type' = NoType
    /\ UNCHANGED <<option, status, period, certainty, report>>

\* The loop has run out of constituents (lines 140 and 162-170).
LoopEnd ==
    /\ Running
    /\ Top.pc = "loop"
    /\ Top.i = Top.n
    /\ stack' = Append(Below, [Top EXCEPT !.pc = "return", !.value = AfterLoop(Top)])
    /\ type' = NoType
    /\ UNCHANGED <<option, status, period, certainty, report>>

\* A recursive call returns into the loop of its caller.
Return ==
    /\ Running
    /\ Top.pc = "return"
    /\ Len(stack) > 1
    /\ stack' = Append(SubSeq(stack, 1, Len(stack) - 2),
                       LoopStep(stack[Len(stack) - 1], Top.value))
    /\ type' = NoType
    /\ UNCHANGED <<option, status, period, certainty, report>>

\* The top-level call returns to checkExpression, which reports.
Report ==
    /\ Running
    /\ Top.pc = "return"
    /\ Len(stack) = 1
    /\ stack' = <<>>
    /\ certainty' = Top.value
    /\ report' = MessageId(Top.value)
    /\ status' = "reported"
    /\ type' = NoType
    /\ UNCHANGED <<option, period>>

\* The repetition of the last p activations if the stack can hold it;
\* otherwise the RangeError, which nothing catches, unwinds the stack.
Reentered(p) ==
    IF Len(stack) + p <= StackLimit
    THEN [status |-> "classifying",
          stack |-> stack \o SubSeq(stack, Len(stack) - p + 1, Len(stack))]
    ELSE [status |-> "error", stack |-> <<>>]

\* The next constituent is a type being classified already, p activations
\* up the stack.  The call on it meets the same answers as that activation
\* did, so it comes back to this very call: the activations repeat.
BackReference(p) ==
    /\ Running
    /\ Top.pc = "loop"
    /\ Top.i < Top.n
    /\ p \in 1..Len(stack)
    /\ period' = p
    /\ status' = Reentered(p).status
    /\ stack' = Reentered(p).stack
    /\ type' = NoType
    /\ UNCHANGED <<option, certainty, report>>

\* The repeated activations recurse again, until the stack overflows
\* (RangeError: Maximum call stack size exceeded).
Reenter ==
    /\ status = "classifying"
    /\ period > 0
    /\ status' = Reentered(period).status
    /\ stack' = Reentered(period).stack
    /\ UNCHANGED <<option, type, period, certainty, report>>

\* The listener returns; the traversal goes on to the next node.
Continue ==
    /\ status \in {"skipped", "reported"}
    /\ status' = "idle"
    /\ type' = NoType
    /\ certainty' = "none"
    /\ report' = "none"
    /\ UNCHANGED <<option, stack, period>>

Next ==
    \/ CheckLiteral
    \/ status = "idle" /\ \E t \in Types : CheckExpression(t)
    \/ Running /\ \E out \in SubtypeOutcomes : Descend(out)
    \/ LoopEnd
    \/ Return
    \/ Report
    \/ \E p \in 1..MaxDepth : BackReference(p)
    \/ Reenter
    \/ Continue

Spec == Init /\ [][Next]_vars

\* The rule's code is sequential and runs to completion: a step that can be
\* taken is taken.
FairSpec == Spec /\ WF_vars(Next)

\* ---- the claims ----
\* The top-level type right after checkExpression passed it down.
Passed == type # NoType

\* The top-level call returned v without entering a loop.
Returned(v) == status = "reported" /\ stack = <<>> /\ certainty = v

\* C1: with rejectFunctions enabled, a type with at least one call signature
\* is classified Function, whatever else holds of it (name in
\* ignoredTypeNames, boolean flags, declarations of toString, composite kind).
C1_FunctionRejection ==
    (Passed /\ option.rejectFunctions /\ type.callSignatures >= 1)
        => Returned(Function)

C1_Witness ==
    /\ Passed
    /\ option.rejectFunctions
    /\ type.callSignatures >= 1
    /\ type.name \in option.ignoredTypeNames
    /\ type.shape.kind = "union"
    /\ type.toString /\ type.declarations.defined
    /\ Returned(Function)
    /\ report = "fnToString"

\* C2: a type whose name is in ignoredTypeNames is classified Always when
\* rejectFunctions is off or the type has no call signature, wherever its
\* toString is declared and whatever its composite kind.
C2_IgnoredTypeNames ==
    (/\ Passed
     /\ type.name \in option.ignoredTypeNames
     /\ (~option.rejectFunctions \/ type.callSignatures = 0))
        => Returned(Always)

C2_Witness ==
    /\ Passed
    /\ type.name \in option.ignoredTypeNames
    /\ type.flags = "Object"
    /\ type.shape.kind = "intersection"
    /\ type.declarations.defined
    /\ \E k \in 1..Len(type.declarations.parents) :
          type.declarations.parents[k] =
              [isInterfaceDeclaration |-> TRUE, name |-> "Object"]
    /\ Returned(Always)

\* C3: when the function rejection does not fire, a type without a toString
\* member, or whose toString has no declaration, is classified Always, also
\* when it is a union or an intersection.
C3_NoStringifier ==
    (/\ Passed
     /\ ~(option.rejectFunctions /\ type.callSignatures >= 1)
     /\ (\/ ~type.toString
         \/ ~type.declarations.defined
         \/ type.declarations.parents = <<>>))
        => Returned(Always)

C3_Witness ==
    /\ Passed
    /\ type.toString
    /\ type.declarations.defined
    /\ type.declarations.parents = <<>>
    /\ type.shape.kind = "union"
    /\ type.flags = "Object"
    /\ type.name \notin option.ignoredTypeNames
    /\ Returned(Always)

\* C4: a type that is no union and no intersection, not boolean, not named in
\* ignoredTypeNames, not rejected as a function, and whose toString has a
\* declaration, is classified Always when no declaration sits in the
\* interface Object, and Never when at least one does.
C4_DeclarationSites ==
    (/\ Passed
     /\ type.shape.kind = "none"
     /\ type.flags = "Object"
     /\ type.name \notin option.ignoredTypeNames
     /\ ~(option.rejectFunctions /\ type.callSignatures >= 1)
     /\ type.toString
     /\ type.declarations.defined
     /\ Len(type.declarations.parents) >= 1)
        => LET inObject ==
                   {k \in 1..Len(type.declarations.parents) :
                       type.declarations.parents[k] =
                           [isInterfaceDeclaration |-> TRUE, name |-> "Object"]}
           IN  IF inObject = {} THEN Returned(Always) ELSE Returned(Never)

C4_Witness ==
    /\ Passed
    /\ type.shape.kind = "none"
    /\ type.flags = "Object"
    /\ type.name \notin option.ignoredTypeNames
    /\ type.declarations.defined
    /\ Len(type.declarations.parents) = 2
    /\ type.declarations.parents[1] =
           [isInterfaceDeclaration |-> FALSE, name |-> "Object"]
    /\ type.declarations.parents[2] =
           [isInterfaceDeclaration |-> TRUE, name |-> "Object"]
    /\ Returned(Never)
    /\ report = "baseToString"

\* The activations that are returning out of a loop over k's constituents.
Returning(k) ==
    {j \in 1..Len(stack) : stack[j].pc = "return" /\ stack[j].kind = k}

\* C5: a union that reaches its loop and whose constituents are classified
\* Always or Never is Always when all are Always, Never when all are Never
\* and Sometimes when both occur, in whatever order.
C5_UnionLaw ==
    \A j \in Returning("union") :
        stack[j].seen \subseteq {Always, Never}
            => /\ stack[j].seen # {}
               /\ stack[j].value =
                      IF stack[j].seen = {Always} THEN Always
                      ELSE IF stack[j].seen = {Never} THEN Never
                      ELSE Sometimes

C5_Witness ==
    \E j \in Returning("union") :
        /\ stack[j].seen = {Always, Never}
        /\ stack[j].i = stack[j].n
        /\ stack[j].value = Sometimes

\* C6: an intersection that reaches its loop is Always when one of its
\* constituents is classified Always and Never otherwise, never Sometimes
\* and never Function.
C6_IntersectionLaw ==
    \A j \in Returning("intersection") :
        /\ stack[j].value = IF Always \in stack[j].seen THEN Always ELSE Never
        /\ stack[j].value = Never => stack[j].i = stack[j].n

C6_Witness ==
    \E j \in Returning("intersection") :
        /\ stack[j].seen = {Never, Always}
        /\ stack[j].value = Always

\* C7: a boolean or boolean-literal type without call signatures is
\* classified Always under every option, also when its toString is
\* declared in the interface Object.
C7_BooleanCarveOut ==
    (/\ Passed
     /\ type.flags \in {"Boolean", "BooleanLiteral"}
     /\ type.callSignatures = 0)
        => Returned(Always)

C7_Witness ==
    /\ Passed
    /\ type.flags = "BooleanLiteral"
    /\ type.callSignatures = 0
    /\ option.rejectFunctions
    /\ option.ignoredTypeNames = {}
    /\ type.declarations.defined
    /\ type.declarations.parents =
           <<[isInterfaceDeclaration |-> TRUE, name |-> "Object"]>>
    /\ Returned(Always)

\* C8 as stated: in a union only Always counts as useful, so the union is
\* Always when every constituent is Always, Sometimes when some but not all
\* are Always, and Never when none is Always.
C8_OnlyAlwaysUseful ==
    \A j \in Returning("union") :
        stack[j].value =
            IF stack[j].seen = {Always} THEN Always
            ELSE IF Always \in stack[j].seen THEN Sometimes
            ELSE Never

\* C8 amended: in a union every verdict but Never counts as useful: the
\* union is Always when every constituent is Always, Never when every
\* constituent is Never, and Sometimes in every other case.
C8_UnionMerge ==
    \A j \in Returning("union") :
        /\ stack[j].i = stack[j].n
        /\ stack[j].seen # {}
        /\ stack[j].value =
               IF stack[j].seen = {Always} THEN Always
               ELSE IF stack[j].seen = {Never} THEN Never
               ELSE Sometimes

C8_Witness ==
    \E j \in Returning("union") :
        /\ stack[j].seen = {Never, Sometimes}
        /\ stack[j].value = Sometimes

\* C9 as stated: the recursive call on a constituent yields Always or Never
\* only.
C9_ConstituentsDefinite ==
    \A j \in 1..Len(stack) : stack[j].seen \subseteq {Always, Never}

\* C9 amended: the recursive call on a constituent can yield each of the four
\* verdicts; it yields Function only with rejectFunctions enabled, and the
\* loops themselves never return Function, so a top-level Function also
\* needs rejectFunctions.
C9_FunctionOnlyWhenRejecting ==
    /\ \A j \in 1..Len(stack) :
          /\ stack[j].seen \subseteq Usefulness
          /\ Function \in stack[j].seen => option.rejectFunctions
          /\ stack[j].pc = "return" => stack[j].value \in {Always, Never, Sometimes}
    /\ certainty = Function => option.rejectFunctions

C9_Witness ==
    \E j \in Returning("union") :
        /\ stack[j].seen = {Function, Sometimes}
        /\ stack[j].value = Sometimes
        /\ option.rejectFunctions

RECURSIVE Work(_)
Work(d) == IF d > MaxDepth THEN 0 ELSE MaxArity * (Work(d + 1) + 1) + 2

\* The steps the activation at depth d can still take: for each constituent
\* not yet called, the call and what it can enter; then the end of the loop
\* and the return.
FrameRank(d) ==
    IF stack[d].pc = "return" THEN 1
    ELSE (stack[d].n - stack[d].i - (IF d = Len(stack) THEN 0 ELSE 1))
             * (Work(d + 1) + 1) + 2

RECURSIVE RankUpTo(_)
RankUpTo(d) == IF d = 0 THEN 0 ELSE RankUpTo(d - 1) + FrameRank(d)

Rank == RankUpTo(Len(stack))

\* A step of a call none of whose constituents leads back to a type being
\* classified.
AcyclicStep ==
    \/ Running /\ \E out \in SubtypeOutcomes : Descend(out)
    \/ LoopEnd
    \/ Return
    \/ Report

====
